---- MODULE Spec2Model ----
(***************************************************************************)
(* Model of the Monitoring-Alerting repository.                            *)
(*                                                                         *)
(*   grafana_multi_api.py : the multi-source collector, either serving     *)
(*                          the Grafana SimpleJson endpoints or run once   *)
(*                          as "collect".                                  *)
(*   jsm-api-test.py      : the one-shot ticket filer.                     *)
(*                                                                         *)
(* Conventions.                                                            *)
(*   - A metric string is the sequence of its dot-separated segments:      *)
(*     "postgres.a.b" is <<"postgres", "a", "b">>.  str.split('.') is the  *)
(*     identity on that representation and '.'.join its inverse.           *)
(*   - A datetime is an integer count of microseconds since the epoch      *)
(*     (the resolution of datetime); epoch milliseconds are a separate     *)
(*     integer scale reached through ToMillis.                             *)
(*   - A Python value that may be None is <<>> (None) or <<v>>.            *)
(*   - Datapoint values are kept in tenths, so that the 0.1 jitter of the  *)
(*     weather series stays an integer.                                    *)
(***************************************************************************)
EXTENDS Integers, Sequences, FiniteSets, TLC

VARIABLES
    mode,        \* sys.argv[1] == 'collect' or the Flask server
    pc,          \* position of the collector process
    dbUp,        \* environment: psycopg2.connect(**config) would succeed
    conn,        \* pg_collector.conn
    es,          \* es_collector.es
    connected,   \* es_collector.connected
    esPing,      \* outcome of the liveness check made at construction
    req,         \* body of the POST /query being handled
    timestamps,  \* query(): the generated timestamps
    results,     \* query(): the response entries built so far
    calls,       \* per target (or per collect step), the connector calls made
    plog,        \* the last operation on the relational connector
    httpResp,    \* the last HTTP response sent by the server
    saved,       \* collect mode: multi_source_data.json was written
    orphans,     \* connections opened by pg_collector, still open, that
                 \* self.conn no longer refers to
    hpc,         \* threaded server: position of the thread handling GET /
    hresp,       \* threaded server: the response of that thread
    rneeds,      \* threaded server: fetch_time_series found the handle
                 \* absent or closed
    rcur,        \* threaded server: the connection of the read's cursor
    race,        \* threaded server: what happened to the read in progress:
                 \* the other thread rebound or closed the handle after its
                 \* check and before its query ran, the database went
                 \* down, the server rejected the statement
    fpc,         \* position of the ticket filer
    argEmail,    \* ticket filer: value of --email
    osEnv,       \* ticket filer: JSM_SITE, API_TOKEN, PROJECT_KEY
    EMAIL,       \* ticket filer: module variable EMAIL
    auth,        \* ticket filer: HTTPBasicAuth(EMAIL, API_TOKEN)
    posts,       \* ticket filer: the POST requests issued
    response,    \* ticket filer: the response of requests.post
    out          \* ticket filer: what was printed

ccVars == <<hpc, hresp, rneeds, rcur, race>>
gwVars == <<mode, pc, dbUp, conn, es, connected, esPing, req, timestamps,
            results, calls, plog, httpResp, saved, orphans,
            hpc, hresp, rneeds, rcur, race>>
tfVars == <<fpc, argEmail, osEnv, EMAIL, auth, posts, response, out>>
vars == <<mode, pc, dbUp, conn, es, connected, esPing, req, timestamps,
          results, calls, plog, httpResp, saved, orphans,
          hpc, hresp, rneeds, rcur, race,
          fpc, argEmail, osEnv, EMAIL, auth, posts, response, out>>

----------------------------------------------------------------------------
(* Bounds of the model *)

MaxTargets == 2

\* the number of connections the database server accepts (max_connections)
MaxConns == 2

None == <<>>
Some(v) == <<v>>

EmptyMap == [k \in {} |-> 0]

----------------------------------------------------------------------------
(* Time *)

\* timedelta(minutes=5), in microseconds
StepMicros == 300000000

\* int(current.timestamp() * 1000): epoch milliseconds, fraction dropped
ToMillis(d) == d \div 1000

\* hash(ts) of a non-negative int below 2^61 - 1 is the int itself
Hash(n) == n

\* the loop with "while current < time_to"
RECURSIVE GenTimestampsExclusive(_, _)
GenTimestampsExclusive(current, time_to) ==
    IF current < time_to
    THEN <<ToMillis(current)>> \o GenTimestampsExclusive(current + StepMicros, time_to)
    ELSE <<>>

\* the while loop of query(): current = time_from; while current <= time_to
RECURSIVE GenTimestamps(_, _)
GenTimestamps(current, time_to) ==
    IF current <= time_to
    THEN <<ToMillis(current)>> \o GenTimestamps(current + StepMicros, time_to)
    ELSE <<>>

----------------------------------------------------------------------------
(* APIDataCollector.  An upstream reply is [ok |-> FALSE] when requests.get *)
(* or raise_for_status raises (network failure, timeout, HTTP error), and   *)
(* [ok |-> TRUE, json |-> body] otherwise.                                  *)

WeatherFields == {"temperature_2m", "wind_speed_10m", "relative_humidity_2m"}

fetch_weather_data(up) ==
    IF ~up.ok THEN EmptyMap
    ELSE IF "current" \notin DOMAIN up.json THEN EmptyMap
    ELSE IF ~(WeatherFields \subseteq DOMAIN up.json.current) THEN EmptyMap
    ELSE [temperature |-> up.json.current.temperature_2m,
          wind_speed  |-> up.json.current.wind_speed_10m,
          humidity    |-> up.json.current.relative_humidity_2m]

\* coins: List[str] = ['bitcoin', 'ethereum']
DefaultCoins == {"bitcoin", "ethereum"}

fetch_crypto_prices(up) ==
    IF ~up.ok THEN EmptyMap
    ELSE LET data == up.json
             present == {coin \in DefaultCoins : coin \in DOMAIN data}
         IN  IF \E coin \in present : "usd" \notin DOMAIN data[coin]
             THEN EmptyMap
             ELSE [coin \in present |-> data[coin].usd]

GithubFields == {"stargazers_count", "forks_count", "open_issues_count",
                 "watchers_count"}

fetch_github_stats(up) ==
    IF ~up.ok THEN EmptyMap
    ELSE IF ~(GithubFields \subseteq DOMAIN up.json) THEN EmptyMap
    ELSE [stars       |-> up.json.stargazers_count,
          forks       |-> up.json.forks_count,
          open_issues |-> up.json.open_issues_count,
          watchers    |-> up.json.watchers_count]

\* the replies the three upstream services are modelled to give
WeatherUpstream ==
    { [ok |-> FALSE, json |-> EmptyMap],
      [ok |-> TRUE, json |-> [current |-> [temperature_2m |-> 21,
                                           wind_speed_10m |-> 3,
                                           relative_humidity_2m |-> 60]]],
      [ok |-> TRUE, json |-> [error |-> TRUE]] }

CryptoUpstream ==
    { [ok |-> FALSE, json |-> EmptyMap],
      [ok |-> TRUE, json |-> [bitcoin |-> [usd |-> 430], ethereum |-> [usd |-> 23]]],
      [ok |-> TRUE, json |-> [ethereum |-> [usd |-> 23]]],
      [ok |-> TRUE, json |-> [bitcoin |-> [eur |-> 400]]] }

GithubUpstream ==
    { [ok |-> FALSE, json |-> EmptyMap],
      [ok |-> TRUE, json |-> [stargazers_count |-> 170, forks_count |-> 50,
                              open_issues_count |-> 3, watchers_count |-> 170]],
      [ok |-> TRUE, json |-> [message |-> "Not Found"]] }

----------------------------------------------------------------------------
(* PostgreSQLCollector.  The handle self.conn is                           *)
(*   "none"   : None                                                        *)
(*   "open"   : a connection with closed == 0 whose server is there         *)
(*   "broken" : a connection with closed == 0 whose server went away        *)
(*   "closed" : a connection with closed != 0                               *)

ConnValues == {"none", "open", "broken", "closed"}

\* connect() without "return False" in its except clause
connectAlwaysTrue(c, up) == [conn |-> IF up THEN "open" ELSE c, ok |-> TRUE]

\* connect() binding a local name instead of self.conn
connectLocalOnly(c, up) == [conn |-> c, ok |-> up]

\* connect(): the handle after the call, and the value returned
connect(c, up) == [conn |-> IF up THEN "open" ELSE c, ok |-> up]

\* disconnect(): the handle after the call
disconnect(c) == IF c # "none" THEN "closed" ELSE c

\* the check as "not self.conn" alone
NeedsConnectNoneOnly(c) == c = "none"

\* not self.conn or self.conn.closed
NeedsConnect(c) == c = "none" \/ c = "closed"

\* try: with self.conn.cursor(...) as cursor: cursor.execute(...);
\* return cursor.fetchall()   except Exception: return []
\* on handle c, where qerr says that the server rejects this statement
CursorExecute(c, qerr, rows) ==
    IF c = "none" THEN [ret |-> <<>>, conn |-> c, executed |-> FALSE]
    ELSE IF c = "closed" THEN [ret |-> <<>>, conn |-> c, executed |-> FALSE]
    ELSE IF c = "broken" THEN [ret |-> <<>>, conn |-> "closed", executed |-> TRUE]
    ELSE IF qerr THEN [ret |-> <<>>, conn |-> c, executed |-> TRUE]
    ELSE [ret |-> rows, conn |-> c, executed |-> TRUE]

\* the metrics table of metrics_db
MetricsTable ==
    { [metric_name |-> <<"b">>,         timestamp |-> 0,         metric_value |-> 5],
      [metric_name |-> <<"b">>,         timestamp |-> 300000000, metric_value |-> 7],
      [metric_name |-> <<"a", "b">>,    timestamp |-> 1500,      metric_value |-> 9],
      [metric_name |-> <<"cpu_usage">>, timestamp |-> 600000000, metric_value |-> 42] }

\* ORDER BY timestamp ASC
RECURSIVE OrderByTimestamp(_)
OrderByTimestamp(rowset) ==
    IF rowset = {} THEN <<>>
    ELSE LET first == CHOOSE r \in rowset :
                          \A q \in rowset : r.timestamp <= q.timestamp
         IN  <<[timestamp |-> first.timestamp, metric_value |-> first.metric_value]>>
             \o OrderByTimestamp(rowset \ {first})

\* SELECT timestamp, metric_value FROM metrics WHERE metric_name = %s
\*   AND timestamp >= %s AND timestamp <= %s ORDER BY timestamp ASC
SelectTimeSeries(metric_name, start_time, end_time) ==
    OrderByTimestamp({r \in MetricsTable :
                          /\ r.metric_name = metric_name
                          /\ r.timestamp >= start_time
                          /\ r.timestamp <= end_time})

\* fetch_time_series(metric_name, start_time, end_time) on handle c
pg_fetch_time_series(c, up, qerr, metric_name, start_time, end_time) ==
    LET c1 == IF NeedsConnect(c) THEN connect(c, up).conn ELSE c
        r  == CursorExecute(c1, qerr, SelectTimeSeries(metric_name, start_time, end_time))
    IN  [ret |-> r.ret, conn |-> r.conn,
         log |-> [op |-> "fetch_time_series", start |-> c, dbUp |-> up,
                  attempts |-> IF NeedsConnect(c) THEN 1 ELSE 0,
                  connectOk |-> NeedsConnect(c) /\ up,
                  execOn |-> c1, executed |-> r.executed]]

\* fetch_metrics(query) on handle c; rows is what the query selects
fetch_metrics(c, up, qerr, rows) ==
    LET c1 == IF NeedsConnect(c) THEN connect(c, up).conn ELSE c
        r  == CursorExecute(c1, qerr, rows)
    IN  [ret |-> r.ret, conn |-> r.conn,
         log |-> [op |-> "fetch_metrics", start |-> c, dbUp |-> up,
                  attempts |-> IF NeedsConnect(c) THEN 1 ELSE 0,
                  connectOk |-> NeedsConnect(c) /\ up,
                  execOn |-> c1, executed |-> r.executed]]

\* what the aggregation query (GROUP BY metric_name over 24 hours) selects
AggregatedRowSets ==
    { <<>>,
      <<[metric_name |-> <<"b">>, avg_value |-> 6, max_value |-> 7,
         min_value |-> 5, count |-> 2]>> }

\* fetch_aggregated_metrics(): {row['metric_name']: row for row in results}
fetch_aggregated_metrics(c, up, qerr, rows) ==
    LET r == fetch_metrics(c, up, qerr, rows)
    IN  [ret |-> [n \in {r.ret[i].metric_name : i \in 1..Len(r.ret)} |->
                    CHOOSE row \in {r.ret[i] : i \in 1..Len(r.ret)} : row.metric_name = n],
         conn |-> r.conn, log |-> r.log]

\* self.conn = psycopg2.connect(..) while self.conn is an open connection:
\* the name is rebound and nothing closes the connection it referred to
Replaced(c, up) == up /\ c = "open"

\* the connections of pg_collector that are open on the server
OpenConnections ==
    orphans + (IF conn = "open" THEN 1 ELSE 0)
            + (IF rcur = "open" THEN 1 ELSE 0)

\* psycopg2.connect(**self.config) would succeed: the server is up and
\* has a free connection slot
Reachable == dbUp /\ OpenConnections < MaxConns

NoLog == [op |-> "none", start |-> "none", dbUp |-> FALSE, attempts |-> 0,
          connectOk |-> FALSE, execOn |-> "none", executed |-> FALSE]

----------------------------------------------------------------------------
(* ElasticsearchCollector.  A search reply is [ok |-> FALSE] when es.search *)
(* raises and [ok |-> TRUE, json |-> body] otherwise.                       *)

\* x or 0
OrZero(x) == IF x = None THEN 0 ELSE x[1]

\* bucket['key'].lower()
Lower(k) ==
    CASE k = "ERROR" -> "error"
      [] k = "INFO"  -> "info"
      [] OTHER       -> k

\* __init__: self.es = Elasticsearch(**config); self.connected = self.es.ping()
\* ping is "true", "false" or "raise"
es_init(ping) ==
    IF ping = "raise" THEN [es |-> "none", connected |-> FALSE]
    ELSE [es |-> "client", connected |-> (ping = "true")]

\* the fetch methods without their "if not self.connected" guard
es_guardMissing(con) == FALSE

\* if not self.connected: return
es_guard(con) == ~con

es_fetch_log_metrics(con, sr) ==
    IF es_guard(con) THEN [ret |-> EmptyMap, searches |-> 0]
    ELSE IF ~sr.ok \/ ~({"hits", "aggregations"} \subseteq DOMAIN sr.json)
    THEN [ret |-> EmptyMap, searches |-> 1]
    ELSE LET b == sr.json.aggregations.log_levels.buckets
             keys == {<<"total_logs">>, <<"error_count">>}
                       \cup {<<"logs", Lower(b[i].key)>> : i \in 1..Len(b)}
         IN  [ret |-> [k \in keys |->
                         IF k = <<"total_logs">> THEN sr.json.hits.total.value
                         ELSE IF k = <<"error_count">>
                              THEN sr.json.aggregations.error_count.doc_count
                         ELSE LET i == CHOOSE j \in 1..Len(b) :
                                           /\ Lower(b[j].key) = k[2]
                                           /\ \A l \in (j+1)..Len(b) : Lower(b[l].key) # k[2]
                              IN  b[i].doc_count],
              searches |-> 1]

es_fetch_time_series(con, index, metric_field, start_time, end_time, sr) ==
    IF es_guard(con) THEN [ret |-> <<>>, searches |-> 0]
    ELSE IF ~sr.ok \/ "aggregations" \notin DOMAIN sr.json
    THEN [ret |-> <<>>, searches |-> 1]
    ELSE LET b == sr.json.aggregations.time_buckets.buckets
         IN  [ret |-> [i \in 1..Len(b) |->
                         [timestamp |-> b[i].key, value |-> OrZero(b[i].avg_value.value)]],
              searches |-> 1]

es_fetch_application_metrics(con, sr) ==
    IF es_guard(con) THEN [ret |-> EmptyMap, searches |-> 0]
    ELSE IF ~sr.ok \/ "aggregations" \notin DOMAIN sr.json
    THEN [ret |-> EmptyMap, searches |-> 1]
    ELSE LET a == sr.json.aggregations
             b == a.status_codes.buckets
             keys == {<<"avg_response_time">>, <<"request_count">>}
                       \cup {<<"status", b[i].key>> : i \in 1..Len(b)}
         IN  [ret |-> [k \in keys |->
                         IF k = <<"avg_response_time">> THEN OrZero(a.avg_response_time.value)
                         ELSE IF k = <<"request_count">> THEN a.request_count.value
                         ELSE LET i == CHOOSE j \in 1..Len(b) :
                                           /\ b[j].key = k[2]
                                           /\ \A l \in (j+1)..Len(b) : b[l].key # k[2]
                              IN  b[i].doc_count],
              searches |-> 1]

\* the replies the search engine is modelled to give
EsLogReplies ==
    { [ok |-> FALSE, json |-> EmptyMap],
      [ok |-> TRUE, json |->
         [hits |-> [total |-> [value |-> 8]],
          aggregations |->
             [error_count |-> [doc_count |-> 2],
              log_levels |-> [buckets |-> <<[key |-> "ERROR", doc_count |-> 2],
                                            [key |-> "INFO", doc_count |-> 6]>>]]]] }

EsTimeSeriesReplies ==
    { [ok |-> FALSE, json |-> EmptyMap],
      [ok |-> TRUE, json |-> [timed_out |-> TRUE]],
      [ok |-> TRUE, json |-> [aggregations |-> [time_buckets |-> [buckets |-> <<>>]]]],
      [ok |-> TRUE, json |-> [aggregations |-> [time_buckets |-> [buckets |->
          <<[key |-> 0,      avg_value |-> [value |-> None]],
            [key |-> 300000, avg_value |-> [value |-> Some(4)]]>>]]]] }

EsApplicationReplies ==
    { [ok |-> FALSE, json |-> EmptyMap],
      [ok |-> TRUE, json |->
         [aggregations |->
             [avg_response_time |-> [value |-> None],
              request_count |-> [value |-> 3],
              status_codes |-> [buckets |-> <<[key |-> "200", doc_count |-> 3]>>]]]] }

----------------------------------------------------------------------------
(* The requests POST /query is given *)

\* an ISO 8601 string "1970-01-01T00:MM:SS.ffffffZ" is the record of its
\* minute, second and microsecond fields
Iso(m, sec, us) == [minute |-> m, second |-> sec, microsecond |-> us]

\* datetime.fromisoformat(s.replace('Z', '+00:00'))
fromisoformat(s) == (s.minute * 60 + s.second) * 1000000 + s.microsecond

FromValues == {Iso(0, 0, 0), Iso(0, 0, 1500), Iso(10, 0, 0)}
ToValues   == {Iso(0, 0, 0), Iso(5, 0, 1499), Iso(10, 0, 0)}

TargetNames ==
    { <<"api", "weather", "temperature">>,
      <<"api", "crypto", "bitcoin">>,
      <<"api", "github", "stars">>,
      <<"postgres", "a", "b">>,
      <<"elastic", "error_count">>,
      <<"unknown", "thing">>,
      <<"api", "weather">> }

RECURSIVE SeqsUpTo(_, _)
SeqsUpTo(S, n) ==
    IF n = 0 THEN {<<>>}
    ELSE LET shorter == SeqsUpTo(S, n - 1)
         IN  shorter \cup {Append(q, x) : q \in shorter, x \in S}

Requests ==
    { [range |-> [from |-> f, to |-> t], targets |-> ts] :
        f \in FromValues, t \in ToValues,
        ts \in SeqsUpTo({[target |-> m] : m \in TargetNames}, MaxTargets) }

NoReq == [range |-> [from |-> Iso(0, 0, 0), to |-> Iso(0, 0, 0)], targets |-> <<>>]
NoResp == [route |-> "none", status |-> 0, body |-> <<>>]

----------------------------------------------------------------------------
(* query(): the dispatch on the metric name *)

\* metric.startswith(prefix + '.'), prefix given by its segments
StartsWith(metric, prefix) ==
    /\ Len(metric) > Len(prefix)
    /\ SubSeq(metric, 1, Len(prefix)) = prefix

\* the chain ending in "else:" instead of "elif metric.startswith('elastic.'):"
FamilyElseElastic(metric) ==
    IF StartsWith(metric, <<"api", "weather">>) THEN "weather"
    ELSE IF StartsWith(metric, <<"api", "crypto">>) THEN "crypto"
    ELSE IF StartsWith(metric, <<"api", "github">>) THEN "github"
    ELSE IF StartsWith(metric, <<"postgres">>) THEN "postgres"
    ELSE "elastic"

\* the if / elif chain of query()
Family(metric) ==
    IF StartsWith(metric, <<"api", "weather">>) THEN "weather"
    ELSE IF StartsWith(metric, <<"api", "crypto">>) THEN "crypto"
    ELSE IF StartsWith(metric, <<"api", "github">>) THEN "github"
    ELSE IF StartsWith(metric, <<"postgres">>) THEN "postgres"
    ELSE IF StartsWith(metric, <<"elastic">>) THEN "elastic"
    ELSE "none"

\* metric.split('.')[-1]
LastSegment(metric) == metric[Len(metric)]

\* the number n as a float, in tenths
Tenths(n) == n * 10

\* value + (hash(ts) % 10 - 5) * 0.1
WeatherJitter(value, ts) == Tenths(value) + ((Hash(ts) % 10) - 5)
\* value + (hash(ts) % 100 - 50)
CryptoJitter(value, ts) == Tenths(value + ((Hash(ts) % 100) - 50))
\* value + (hash(ts) % 20 - 10)
GithubJitter(value, ts) == Tenths(value + ((Hash(ts) % 20) - 10))

\* the series built from data.get(metric_name, 0) with no membership test
ApiDatapointsDefaultZero(family, data, metric_name, tss) ==
    LET value == IF metric_name \in DOMAIN data THEN data[metric_name] ELSE 0
    IN  [i \in 1..Len(tss) |->
            << CASE family = "weather" -> WeatherJitter(value, tss[i])
                 [] family = "crypto"  -> CryptoJitter(value, tss[i])
                 [] family = "github"  -> GithubJitter(value, tss[i]),
               tss[i] >>]

\* if metric_name in data: for ts in timestamps: datapoints.append([.., ts])
ApiDatapoints(family, data, metric_name, tss) ==
    IF metric_name \in DOMAIN data
    THEN [i \in 1..Len(tss) |->
            << CASE family = "weather" -> WeatherJitter(data[metric_name], tss[i])
                 [] family = "crypto"  -> CryptoJitter(data[metric_name], tss[i])
                 [] family = "github"  -> GithubJitter(data[metric_name], tss[i]),
               tss[i] >>]
    ELSE <<>>

\* for row in pg_data: [float(row['metric_value']), int(row['timestamp'].timestamp() * 1000)]
PgDatapoints(pg_data) ==
    [i \in 1..Len(pg_data) |->
        <<Tenths(pg_data[i].metric_value), ToMillis(pg_data[i].timestamp)>>]

\* for row in es_data: [float(row['value']), row['timestamp']]
EsDatapoints(es_data) ==
    [i \in 1..Len(es_data) |-> <<Tenths(es_data[i].value), es_data[i].timestamp>>]

\* the entry built with 'target': metric_name, the last segment
EntryEchoesMetricName(metric, datapoints) ==
    [target |-> <<metric[Len(metric)]>>, datapoints |-> datapoints]

\* results.append({'target': metric, 'datapoints': datapoints})
Entry(metric, datapoints) == [target |-> metric, datapoints |-> datapoints]

ApiCall(family, data) ==
    [connector |-> family, arg |-> <<>>, ret |-> data, searches |-> 0]

----------------------------------------------------------------------------
(* The collector process *)

\* the /search reply
KnownMetrics ==
    << <<"api", "weather", "temperature">>, <<"api", "weather", "wind_speed">>,
       <<"api", "weather", "humidity">>, <<"api", "crypto", "bitcoin">>,
       <<"api", "crypto", "ethereum">>, <<"api", "github", "stars">>,
       <<"api", "github", "forks">>, <<"api", "github", "open_issues">>,
       <<"postgres", "cpu_usage">>, <<"postgres", "memory_usage">>,
       <<"postgres", "disk_io">>, <<"postgres", "connections">>,
       <<"elastic", "total_logs">>, <<"elastic", "error_count">>,
       <<"elastic", "avg_response_time">>, <<"elastic", "request_count">> >>

\* the ticket filer is not running
FilerOff ==
    /\ fpc = "off"
    /\ argEmail = "" /\ EMAIL = None /\ auth = None
    /\ osEnv = [JSM_SITE |-> "", API_TOKEN |-> "", PROJECT_KEY |-> ""]
    /\ posts = <<>> /\ response = None /\ out = None

NoRace == [byHealth |-> FALSE, outage |-> FALSE, qerr |-> FALSE]

\* fetch_time_series is between its first and its last statement
ReadInProgress == pc \in {"r_check", "r_connect", "r_cursor", "r_execute"}

\* no request is being handled by a second thread
ThreadsOff ==
    /\ hpc = "off" /\ hresp = NoResp
    /\ rneeds = FALSE /\ rcur = "handle" /\ race = NoRace

\* module level: pg_collector = PostgreSQLCollector(..),
\* es_collector = ElasticsearchCollector(..)
Init ==
    /\ mode \in {"server", "collect"}
    /\ pc = "main"
    /\ dbUp \in BOOLEAN
    /\ conn = "none"
    /\ esPing \in {"true", "false", "raise"}
    /\ es = es_init(esPing).es
    /\ connected = es_init(esPing).connected
    /\ req = NoReq /\ timestamps = <<>> /\ results = <<>> /\ calls = <<>>
    /\ plog = NoLog /\ httpResp = NoResp /\ saved = FALSE
    /\ orphans = 0
    /\ ThreadsOff
    /\ FilerOff

ClearQuery == req' = NoReq /\ timestamps' = <<>> /\ results' = <<>> /\ calls' = <<>>

\* if len(sys.argv) > 1 and sys.argv[1] == 'collect': .. else: app.run(..)
Main ==
    /\ pc = "main"
    /\ pc' = IF mode = "collect" THEN "collect_api" ELSE "idle"
    /\ UNCHANGED <<mode, dbUp, conn, es, connected, esPing, req, timestamps,
                   results, calls, plog, httpResp, saved>>
    /\ UNCHANGED tfVars
    /\ UNCHANGED ccVars
    /\ UNCHANGED orphans

\* the database becomes reachable
DbComesUp ==
    /\ ~dbUp
    /\ dbUp' = TRUE
    /\ UNCHANGED <<mode, pc, conn, es, connected, esPing, req, timestamps,
                   results, calls, plog, httpResp, saved>>
    /\ UNCHANGED tfVars
    /\ UNCHANGED ccVars
    /\ UNCHANGED orphans

\* the database becomes unreachable; an open connection loses its server
DbGoesDown ==
    /\ dbUp
    /\ dbUp' = FALSE
    /\ conn' = IF conn = "open" THEN "broken" ELSE conn
    /\ orphans' = 0
    /\ rcur' = IF rcur = "open" THEN "broken" ELSE rcur
    /\ race' = IF ReadInProgress THEN [race EXCEPT !.outage = TRUE] ELSE race
    /\ UNCHANGED <<mode, pc, es, connected, esPing, req, timestamps,
                   results, calls, plog, httpResp, saved>>
    /\ UNCHANGED tfVars
    /\ UNCHANGED <<hpc, hresp, rneeds>>

\* GET /
Health ==
    /\ pc = "idle"
    /\ LET c == connect(conn, Reachable)
       IN  /\ httpResp' = [route |-> "/", status |-> 200,
                           body |-> [status |-> "ok",
                                     datasources |-> [postgresql |-> c.ok,
                                                      elasticsearch |-> connected,
                                                      apis |-> TRUE]]]
           /\ conn' = disconnect(c.conn)
           /\ orphans' = orphans + (IF Replaced(conn, Reachable) THEN 1 ELSE 0)
           /\ plog' = [op |-> "health", start |-> conn, dbUp |-> Reachable,
                       attempts |-> 1, connectOk |-> c.ok,
                       execOn |-> "none", executed |-> FALSE]
    /\ pc' = "responded"
    /\ UNCHANGED <<mode, req, timestamps, results, calls,
                   dbUp, es, connected, esPing, saved>>
    /\ UNCHANGED tfVars
    /\ UNCHANGED ccVars

\* POST /search
Search ==
    /\ pc = "idle"
    /\ httpResp' = [route |-> "/search", status |-> 200, body |-> KnownMetrics]
    /\ pc' = "responded"
    /\ UNCHANGED <<mode, plog, req, timestamps, results, calls,
                   dbUp, conn, es, connected, esPing, saved>>
    /\ UNCHANGED tfVars
    /\ UNCHANGED ccVars
    /\ UNCHANGED orphans

\* POST /annotations
Annotations ==
    /\ pc = "idle"
    /\ httpResp' = [route |-> "/annotations", status |-> 200, body |-> <<>>]
    /\ pc' = "responded"
    /\ UNCHANGED <<mode, plog, req, timestamps, results, calls,
                   dbUp, conn, es, connected, esPing, saved>>
    /\ UNCHANGED tfVars
    /\ UNCHANGED ccVars
    /\ UNCHANGED orphans

\* POST /query, up to the loop over the targets
QueryStart ==
    /\ pc = "idle"
    /\ \E r \in Requests :
         /\ req' = r
         /\ timestamps' = GenTimestamps(fromisoformat(r.range.from),
                                        fromisoformat(r.range.to))
    /\ results' = <<>>
    /\ calls' = <<>>
    /\ pc' = "query"
    /\ UNCHANGED <<mode, plog, httpResp, dbUp, conn, es, connected, esPing, saved>>
    /\ UNCHANGED tfVars
    /\ UNCHANGED ccVars
    /\ UNCHANGED orphans

\* the target the loop of query() is at
Metric == req.targets[Len(results) + 1].target

InLoop == pc = "query" /\ Len(results) < Len(req.targets)

\* one iteration of the loop, API families
QueryApi ==
    /\ InLoop
    /\ Family(Metric) \in {"weather", "crypto", "github"}
    /\ \E data \in
           CASE Family(Metric) = "weather" -> {fetch_weather_data(up) : up \in WeatherUpstream}
             [] Family(Metric) = "crypto"  -> {fetch_crypto_prices(up) : up \in CryptoUpstream}
             [] Family(Metric) = "github"  -> {fetch_github_stats(up) : up \in GithubUpstream} :
         /\ results' = Append(results,
                Entry(Metric, ApiDatapoints(Family(Metric), data, LastSegment(Metric), timestamps)))
         /\ calls' = Append(calls, <<ApiCall(Family(Metric), data)>>)
    /\ UNCHANGED <<mode, pc, dbUp, conn, es, connected, esPing, req, timestamps,
                   plog, httpResp, saved>>
    /\ UNCHANGED tfVars
    /\ UNCHANGED ccVars
    /\ UNCHANGED orphans

\* one iteration of the loop, postgres.*
QueryPostgres ==
    /\ InLoop
    /\ Family(Metric) = "postgres"
    /\ \E qerr \in BOOLEAN :
         LET metric_name == <<LastSegment(Metric)>>
             r == pg_fetch_time_series(conn, Reachable, qerr, metric_name,
                                       fromisoformat(req.range.from),
                                       fromisoformat(req.range.to))
         IN  /\ results' = Append(results, Entry(Metric, PgDatapoints(r.ret)))
             /\ calls' = Append(calls, <<[connector |-> "postgres", arg |-> metric_name,
                                          ret |-> r.ret, searches |-> 0]>>)
             /\ conn' = r.conn
             /\ plog' = r.log
    /\ UNCHANGED <<mode, pc, dbUp, es, connected, esPing, req, timestamps,
                   httpResp, saved>>
    /\ UNCHANGED tfVars
    /\ UNCHANGED ccVars
    /\ UNCHANGED orphans

\* one iteration of the loop, elastic.*
QueryElastic ==
    /\ InLoop
    /\ Family(Metric) = "elastic"
    /\ \E sr \in EsTimeSeriesReplies :
         LET metric_name == <<LastSegment(Metric)>>
             r == es_fetch_time_series(connected, "metrics-*", metric_name,
                                       fromisoformat(req.range.from),
                                       fromisoformat(req.range.to), sr)
         IN  /\ results' = Append(results, Entry(Metric, EsDatapoints(r.ret)))
             /\ calls' = Append(calls, <<[connector |-> "elastic", arg |-> metric_name,
                                          ret |-> r.ret, searches |-> r.searches]>>)
    /\ UNCHANGED <<mode, pc, dbUp, conn, es, connected, esPing, req, timestamps,
                   plog, httpResp, saved>>
    /\ UNCHANGED tfVars
    /\ UNCHANGED ccVars
    /\ UNCHANGED orphans

\* one iteration of the loop, no prefix matches
QueryUnmatched ==
    /\ InLoop
    /\ Family(Metric) = "none"
    /\ results' = Append(results, Entry(Metric, <<>>))
    /\ calls' = Append(calls, <<>>)
    /\ UNCHANGED <<mode, pc, dbUp, conn, es, connected, esPing, req, timestamps,
                   plog, httpResp, saved>>
    /\ UNCHANGED tfVars
    /\ UNCHANGED ccVars
    /\ UNCHANGED orphans

\* return jsonify(results)
QueryReturn ==
    /\ pc = "query"
    /\ Len(results) = Len(req.targets)
    /\ httpResp' = [route |-> "/query", status |-> 200, body |-> results]
    /\ pc' = "responded"
    /\ UNCHANGED <<mode, dbUp, conn, es, connected, esPing, req, timestamps,
                   results, calls, plog, saved>>
    /\ UNCHANGED tfVars
    /\ UNCHANGED ccVars
    /\ UNCHANGED orphans

\* the response is sent and the server waits for the next request; the
\* locals of the handler are gone
Served ==
    /\ pc = "responded"
    /\ pc' = "idle"
    /\ httpResp' = NoResp
    /\ plog' = NoLog
    /\ ClearQuery
    /\ UNCHANGED <<mode, dbUp, conn, es, connected, esPing, saved>>
    /\ UNCHANGED tfVars
    /\ UNCHANGED ccVars
    /\ UNCHANGED orphans

\* finally: pg_collector.disconnect()
Shutdown ==
    /\ pc = "idle"
    /\ conn' = disconnect(conn)
    /\ pc' = "exit"
    /\ UNCHANGED <<mode, dbUp, es, connected, esPing, req, timestamps,
                   results, calls, plog, httpResp, saved>>
    /\ UNCHANGED tfVars
    /\ UNCHANGED ccVars
    /\ UNCHANGED orphans

----------------------------------------------------------------------------
(* Standalone mode: collect_and_display() and the JSON dump *)

CollectApi ==
    /\ pc = "collect_api"
    /\ \E w \in WeatherUpstream, c \in CryptoUpstream, g \in GithubUpstream :
         calls' = Append(calls, <<ApiCall("weather", fetch_weather_data(w)),
                                  ApiCall("crypto", fetch_crypto_prices(c)),
                                  ApiCall("github", fetch_github_stats(g))>>)
    /\ pc' = "collect_pg"
    /\ UNCHANGED <<mode, dbUp, conn, es, connected, esPing, req, timestamps,
                   results, plog, httpResp, saved>>
    /\ UNCHANGED tfVars
    /\ UNCHANGED ccVars
    /\ UNCHANGED orphans

CollectPg ==
    /\ pc = "collect_pg"
    /\ \E qerr \in BOOLEAN, rows \in AggregatedRowSets :
         LET r == fetch_aggregated_metrics(conn, Reachable, qerr, rows)
         IN  /\ calls' = Append(calls, <<[connector |-> "postgres", arg |-> <<>>,
                                          ret |-> r.ret, searches |-> 0]>>)
             /\ conn' = r.conn
             /\ plog' = r.log
    /\ pc' = "collect_es_logs"
    /\ UNCHANGED <<mode, dbUp, es, connected, esPing, req, timestamps,
                   results, httpResp, saved>>
    /\ UNCHANGED tfVars
    /\ UNCHANGED ccVars
    /\ UNCHANGED orphans

CollectEsLogs ==
    /\ pc = "collect_es_logs"
    /\ \E sr \in EsLogReplies :
         LET r == es_fetch_log_metrics(connected, sr)
         IN  calls' = Append(calls, <<[connector |-> "elastic", arg |-> <<"logs-*">>,
                                       ret |-> r.ret, searches |-> r.searches]>>)
    /\ pc' = "collect_es_app"
    /\ UNCHANGED <<mode, dbUp, conn, es, connected, esPing, req, timestamps,
                   results, plog, httpResp, saved>>
    /\ UNCHANGED tfVars
    /\ UNCHANGED ccVars
    /\ UNCHANGED orphans

CollectEsApp ==
    /\ pc = "collect_es_app"
    /\ \E sr \in EsApplicationReplies :
         LET r == es_fetch_application_metrics(connected, sr)
         IN  calls' = Append(calls, <<[connector |-> "elastic", arg |-> <<"metrics-*">>,
                                       ret |-> r.ret, searches |-> r.searches]>>)
    /\ pc' = "collect_save"
    /\ UNCHANGED <<mode, dbUp, conn, es, connected, esPing, req, timestamps,
                   results, plog, httpResp, saved>>
    /\ UNCHANGED tfVars
    /\ UNCHANGED ccVars
    /\ UNCHANGED orphans

\* json.dump(data, f); pg_collector.disconnect()
CollectSave ==
    /\ pc = "collect_save"
    /\ saved' = TRUE
    /\ conn' = disconnect(conn)
    /\ pc' = "exit"
    /\ UNCHANGED <<mode, dbUp, es, connected, esPing, req, timestamps,
                   results, calls, plog, httpResp>>
    /\ UNCHANGED tfVars
    /\ UNCHANGED ccVars
    /\ UNCHANGED orphans

\* the garbage collector finalises a connection nothing refers to, which
\* closes it; when this happens is up to the interpreter
Finalize ==
    /\ orphans > 0
    /\ orphans' = orphans - 1
    /\ UNCHANGED <<mode, pc, dbUp, conn, es, connected, esPing, req, timestamps,
                   results, calls, plog, httpResp, saved>>
    /\ UNCHANGED tfVars
    /\ UNCHANGED ccVars

Next ==
    \/ Main
    \/ DbComesUp
    \/ DbGoesDown
    \/ Finalize
    \/ Health
    \/ Search
    \/ Annotations
    \/ QueryStart
    \/ QueryApi
    \/ QueryPostgres
    \/ QueryElastic
    \/ QueryUnmatched
    \/ QueryReturn
    \/ Served
    \/ Shutdown
    \/ CollectApi
    \/ CollectPg
    \/ CollectEsLogs
    \/ CollectEsApp
    \/ CollectSave

Spec == Init /\ [][Next]_vars

----------------------------------------------------------------------------
(* The ticket filer, jsm-api-test.py *)

\* the collector is not running
CollectorOff ==
    /\ mode = "server" /\ pc = "off" /\ dbUp = FALSE /\ conn = "none"
    /\ esPing = "false" /\ es = es_init("false").es
    /\ connected = es_init("false").connected
    /\ req = NoReq /\ timestamps = <<>> /\ results = <<>> /\ calls = <<>>
    /\ plog = NoLog /\ httpResp = NoResp /\ saved = FALSE
    /\ orphans = 0
    /\ ThreadsOff

HardcodedEmail == "almir.alitovic@logicpulse.ba"

Emails == {HardcodedEmail, "alice@example.com", "bob@example.com"}
Sites == {"https://a.atlassian.net", "https://b.atlassian.net"}
Tokens == {"token-1", "token-2"}
ProjectKeys == {"PROJ"}

\* the body of a reply: JSON text with its parsed value, or text that is
\* not JSON
Bodies ==
    { [kind |-> "json", value |-> [key |-> "PROJ-123"]],
      [kind |-> "json", value |-> [key |-> "PROJ-7"]],
      [kind |-> "json", value |-> [errorMessages |-> "denied"]],
      [kind |-> "html", value |-> EmptyMap] }

StatusCodes == {200, 201, 400, 401, 500}

Responses == {[status_code |-> c, text |-> b] : c \in StatusCodes, b \in Bodies}

TicketInit ==
    /\ CollectorOff
    /\ fpc = "args"
    /\ argEmail \in Emails
    /\ osEnv \in [JSM_SITE : Sites, API_TOKEN : Tokens, PROJECT_KEY : ProjectKeys]
    /\ EMAIL = None /\ auth = None
    /\ posts = <<>> /\ response = None /\ out = None

\* args = parser.parse_args(); EMAIL = args.email
ParseArgs ==
    /\ fpc = "args"
    /\ EMAIL' = Some(argEmail)
    /\ fpc' = "env"
    /\ UNCHANGED <<argEmail, osEnv, auth, posts, response, out>>
    /\ UNCHANGED gwVars

\* JSM_SITE = os.getenv(..) .. EMAIL = "almir.alitovic@logicpulse.ba"
ReadEnv ==
    /\ fpc = "env"
    /\ EMAIL' = Some(HardcodedEmail)
    /\ fpc' = "auth"
    /\ UNCHANGED <<argEmail, osEnv, auth, posts, response, out>>
    /\ UNCHANGED gwVars

\* auth = HTTPBasicAuth(EMAIL, API_TOKEN)
BuildAuth ==
    /\ fpc = "auth"
    /\ auth' = Some([username |-> EMAIL[1], password |-> osEnv.API_TOKEN])
    /\ fpc' = "post"
    /\ UNCHANGED <<argEmail, osEnv, EMAIL, posts, response, out>>
    /\ UNCHANGED gwVars

\* url = f"{JSM_SITE}/rest/api/3/issue"
IssueUrl(site) == <<site, "/rest/api/3/issue">>

\* payload = json.dumps({"fields": {..}})
Payload(project_key) ==
    [project |-> [key |-> project_key],
     summary |-> "Test Incident from API",
     issuetype |-> [id |-> "10049"]]

\* response = requests.post(url, data=payload, headers=headers, auth=auth);
\* the request is sent and either a reply arrives or requests raises
Post ==
    /\ fpc = "post"
    /\ posts' = Append(posts, [method |-> "POST", url |-> IssueUrl(osEnv.JSM_SITE),
                               auth |-> auth[1], data |-> Payload(osEnv.PROJECT_KEY)])
    /\ \/ \E r \in Responses : response' = Some(r) /\ fpc' = "report" /\ out' = out
       \/ /\ response' = None
          /\ fpc' = "crashed"
          /\ out' = Some([printed |-> "Traceback", key |-> None,
                          status_code |-> None, text |-> None])
    /\ UNCHANGED <<argEmail, osEnv, EMAIL, auth>>
    /\ UNCHANGED gwVars

\* the test as response.status_code == 200
IsCreatedOn200(r) == r.status_code = 200

\* response.status_code == 201
IsCreated(r) == r.status_code = 201

\* if response.status_code == 201: print(.., response.json()["key"])
\* else: print("Error:", response.status_code, response.text)
Report ==
    /\ fpc = "report"
    /\ LET r == response[1]
       IN  IF IsCreated(r)
           THEN IF r.text.kind = "json" /\ "key" \in DOMAIN r.text.value
                THEN /\ out' = Some([printed |-> "Incident created successfully:",
                                     key |-> Some(r.text.value.key),
                                     status_code |-> None, text |-> None])
                     /\ fpc' = "done"
                ELSE /\ out' = Some([printed |-> "Traceback", key |-> None,
                                     status_code |-> None, text |-> None])
                     /\ fpc' = "crashed"
           ELSE /\ out' = Some([printed |-> "Error:", key |-> None,
                                status_code |-> Some(r.status_code),
                                text |-> Some(r.text)])
                /\ fpc' = "done"
    /\ UNCHANGED <<argEmail, osEnv, EMAIL, auth, posts, response>>
    /\ UNCHANGED gwVars

TicketNext ==
    \/ ParseArgs
    \/ ReadEnv
    \/ BuildAuth
    \/ Post
    \/ Report

TicketSpec == TicketInit /\ [][TicketNext]_vars

----------------------------------------------------------------------------
(* Properties of POST /query *)

\* the response entries of the query being handled or just answered
Answered == pc \in {"query", "responded"} /\ httpResp.route \in {"none", "/query"}

ApiFamilies == {"weather", "crypto", "github"}

\* C1: a POST /query is answered with exactly as many entries as the request
\* has targets, and the i-th entry's target is the i-th requested target
\* string unchanged, whatever its prefix and whatever the connectors returned;
\* while the loop runs, the entries built so far echo the targets handled so far.
C1_TargetsEchoed ==
    /\ pc = "query" =>
          /\ Len(results) <= Len(req.targets)
          /\ \A i \in 1..Len(results) : results[i].target = req.targets[i].target
    /\ httpResp.route = "/query" =>
          /\ httpResp.status = 200
          /\ Len(httpResp.body) = Len(req.targets)
          /\ \A i \in 1..Len(req.targets) :
                httpResp.body[i].target = req.targets[i].target

\* a two-target request, one target unmatched and one answered with data,
\* has been answered
C1_Witness ==
    /\ httpResp.route = "/query"
    /\ Len(req.targets) = 2
    /\ req.targets[1].target = <<"unknown", "thing">>
    /\ req.targets[2].target = <<"postgres", "a", "b">>
    /\ httpResp.body[1].datapoints = <<>>
    /\ httpResp.body[2].datapoints # <<>>

\* C2: for an api.weather.*, api.crypto.* or api.github.* target whose last
\* segment is a key of the mapping its connector returned, the datapoint
\* timestamps are from, from + 5 min, from + 10 min, ... in epoch
\* milliseconds, up to the last one not after to: floor((to - from) / 5 min) + 1
\* of them when from <= to and none when from > to, strictly increasing.
C2_ApiTimestamps ==
    Answered =>
      \A i \in 1..Len(results) :
        LET m  == results[i].target
            dp == results[i].datapoints
            f  == fromisoformat(req.range.from)
            t  == fromisoformat(req.range.to)
            n  == IF f <= t THEN ((t - f) \div 300000000) + 1 ELSE 0
        IN  (/\ Len(m) >= 3 /\ m[1] = "api" /\ m[2] \in ApiFamilies
             /\ Len(calls[i]) = 1
             /\ m[Len(m)] \in DOMAIN calls[i][1].ret)
            => /\ Len(dp) = n
               /\ \A k \in 1..Len(dp) : dp[k][2] = (f \div 1000) + (k - 1) * 300000
               /\ \A k \in 1..(Len(dp) - 1) : dp[k][2] < dp[k + 1][2]

\* api.crypto.bitcoin over a ten-minute range has three datapoints, at
\* minute 0, 5 and 10
C2_Witness ==
    /\ httpResp.route = "/query"
    /\ req.range = [from |-> Iso(0, 0, 0), to |-> Iso(10, 0, 0)]
    /\ Len(req.targets) = 1
    /\ req.targets[1].target = <<"api", "crypto", "bitcoin">>
    /\ Len(httpResp.body[1].datapoints) = 3
    /\ httpResp.body[1].datapoints[1][2] = 0
    /\ httpResp.body[1].datapoints[2][2] = 300000
    /\ httpResp.body[1].datapoints[3][2] = 600000

\* the connector called for target i returned nothing usable for it: an
\* empty mapping or list (failure or no data), or a mapping without the key
NoData(i) ==
    /\ Len(calls[i]) = 1
    /\ LET c == calls[i][1]
       IN  IF c.connector \in ApiFamilies
           THEN results[i].target[Len(results[i].target)] \notin DOMAIN c.ret
           ELSE Len(c.ret) = 0

HasPrefix(metric, p) ==
    /\ Len(metric) > Len(p)
    /\ \A k \in 1..Len(p) : metric[k] = p[k]

\* C4: a target that starts with none of api.weather., api.crypto.,
\* api.github., postgres., elastic. gets datapoints == [] and causes no
\* connector call; a target with one of these prefixes causes exactly one
\* call, to the connector of that prefix's family.
C4_Dispatch ==
    Answered =>
      \A i \in 1..Len(results) :
        LET m == results[i].target
            fam == CASE HasPrefix(m, <<"api", "weather">>) -> "weather"
                     [] HasPrefix(m, <<"api", "crypto">>)  -> "crypto"
                     [] HasPrefix(m, <<"api", "github">>)  -> "github"
                     [] HasPrefix(m, <<"postgres">>)       -> "postgres"
                     [] HasPrefix(m, <<"elastic">>)        -> "elastic"
                     [] OTHER                              -> "none"
        IN  IF fam = "none"
            THEN results[i].datapoints = <<>> /\ calls[i] = <<>>
            ELSE Len(calls[i]) = 1 /\ calls[i][1].connector = fam

\* unknown.thing and api.weather (no trailing segment) were answered with no
\* datapoints and no connector call
C4_Witness ==
    /\ httpResp.route = "/query"
    /\ Len(req.targets) = 2
    /\ req.targets[1].target = <<"unknown", "thing">>
    /\ req.targets[2].target = <<"api", "weather">>
    /\ calls = <<<<>>, <<>>>>
    /\ httpResp.body[1].datapoints = <<>>
    /\ httpResp.body[2].datapoints = <<>>

\* C5: for postgres.* and elastic.* targets the metric name handed to the
\* connector's time-series query is the target without its first segment
\* (postgres.a.b is queried as a.b).
C5_SuffixMetricName ==
    Answered =>
      \A i \in 1..Len(results) :
        (results[i].target[1] \in {"postgres", "elastic"} /\ Len(calls[i]) = 1)
          => calls[i][1].arg = Tail(results[i].target)

----------------------------------------------------------------------------
(* Properties of the health check and of the two connectors *)

\* C6: GET / never fails: from every state of the shared handle (never
\* connected, open, closed) and whether or not the database is reachable it
\* answers 200, with datasources.postgresql true exactly when the connection
\* attempt of this check succeeded, so false when the database is unreachable.
C6_HealthNeverFails ==
    /\ pc = "idle" => ENABLED Health
    /\ httpResp.route = "/" =>
          /\ httpResp.status = 200
          /\ plog.op = "health"
          /\ httpResp.body.datasources.postgresql = plog.dbUp
          /\ httpResp.body.datasources.postgresql = plog.connectOk
          /\ ~plog.dbUp => httpResp.body.datasources.postgresql = FALSE

\* a health check made on a closed handle with the database unreachable
\* answered 200 with postgresql false
C6_Witness ==
    /\ httpResp.route = "/"
    /\ httpResp.status = 200
    /\ plog.start = "closed"
    /\ ~plog.dbUp
    /\ httpResp.body.datasources.postgresql = FALSE

\* C7: if the liveness check made at construction fails (ping false or
\* raising), connected is false in every later state and every call of
\* fetch_log_metrics, fetch_time_series and fetch_application_metrics returns
\* an empty result without a search request.
C7_PermanentlyDisconnected ==
    esPing # "true" =>
        /\ ~connected
        /\ \A i \in 1..Len(calls) : \A j \in 1..Len(calls[i]) :
              calls[i][j].connector = "elastic" =>
                  /\ calls[i][j].searches = 0
                  /\ DOMAIN calls[i][j].ret = {}

\* after a failed liveness check an elastic.* target has been queried
C7_Witness ==
    /\ esPing = "raise"
    /\ httpResp.route = "/query"
    /\ Len(req.targets) = 1
    /\ req.targets[1].target = <<"elastic", "error_count">>
    /\ calls[1][1].connector = "elastic"
    /\ httpResp.body[1].datapoints = <<>>

\* C8: in a sequence of non-overlapping relational reads and health checks,
\* a read that starts with the handle absent or closed makes one connection
\* attempt before its query, a read that starts with an open handle runs on
\* that handle with no connection attempt, and a read issued while the
\* database is reachable never runs its query on a closed (or absent) handle.
C8_ReconnectBeforeQuery ==
    plog.op \in {"fetch_time_series", "fetch_metrics"} =>
        /\ plog.start \in {"none", "closed"} => plog.attempts = 1
        /\ plog.start \in {"open", "broken"} =>
              plog.attempts = 0 /\ plog.execOn = plog.start /\ plog.executed
        /\ plog.dbUp => plog.execOn \notin {"none", "closed"} /\ plog.executed
        /\ plog.executed <=> plog.execOn \in {"open", "broken"}

\* a read issued after a health check had closed the handle reconnected and
\* returned rows
C8_Witness ==
    /\ plog.op = "fetch_time_series"
    /\ plog.start = "closed"
    /\ plog.dbUp
    /\ plog.attempts = 1
    /\ plog.execOn = "open"
    /\ conn = "open"
    /\ Len(calls) = 1 /\ Len(calls[1]) = 1
    /\ calls[1][1].connector = "postgres"
    /\ calls[1][1].ret # <<>>

----------------------------------------------------------------------------
(* Properties of the ticket filer *)

\* C9: one run of the ticket filer issues exactly one POST, to
\* <site>/rest/api/3/issue, and never a second one; on status 201 it reports
\* the key field of the response body as the created identifier, and on every
\* other status it reports the raw status code and body.
C9_OnePost ==
    /\ Len(posts) <= 1
    /\ fpc \in {"report", "done", "crashed"} =>
          /\ Len(posts) = 1
          /\ posts[1].method = "POST"
          /\ posts[1].url = <<osEnv.JSM_SITE, "/rest/api/3/issue">>
    /\ fpc = "done" =>
          /\ response # None /\ out # None
          /\ response[1].status_code = 201 =>
                /\ out[1].printed = "Incident created successfully:"
                /\ out[1].key = Some(response[1].text.value.key)
          /\ response[1].status_code # 201 =>
                /\ out[1].printed = "Error:"
                /\ out[1].status_code = Some(response[1].status_code)
                /\ out[1].text = Some(response[1].text)
    /\ (/\ fpc \in {"done", "crashed"} /\ response # None
        /\ response[1].status_code = 201 /\ response[1].text.kind = "json"
        /\ "key" \in DOMAIN response[1].text.value) => fpc = "done"

\* a 201 reply with body {"key": "PROJ-123"} was reported as PROJ-123
C9_Witness ==
    /\ fpc = "done"
    /\ Len(posts) = 1
    /\ response = Some([status_code |-> 201,
                        text |-> [kind |-> "json", value |-> [key |-> "PROJ-123"]]])
    /\ out[1].key = Some("PROJ-123")

\* C10: the basic-auth user name of the outbound POST is the value given as
\* --email.
C10_AuthIsArgEmail ==
    \A i \in 1..Len(posts) : posts[i].auth.username = argEmail

----------------------------------------------------------------------------
(* The threaded server: app.run serves each request in a thread of its     *)
(* own, so a GET / and a POST /query for a postgres.* target run statement  *)
(* by statement against the one pg_collector, with no lock.                 *)

\* the POST /query requests of this scenario: one postgres.* target
ThreadedRequests ==
    {r \in Requests : Len(r.targets) = 1 /\ Family(r.targets[1].target) = "postgres"}

ThreadedInit ==
    /\ mode = "server"
    /\ pc = "idle"
    /\ dbUp \in BOOLEAN
    /\ conn = "none"
    /\ esPing \in {"true", "false", "raise"}
    /\ es = es_init(esPing).es
    /\ connected = es_init(esPing).connected
    /\ req = NoReq /\ timestamps = <<>> /\ results = <<>> /\ calls = <<>>
    /\ plog = NoLog /\ httpResp = NoResp /\ saved = FALSE
    /\ orphans = 0
    /\ hpc = "idle" /\ hresp = NoResp
    /\ rneeds = FALSE /\ rcur = "handle" /\ race = NoRace
    /\ FilerOff

\* the read is past its check and its query has not run yet
AfterCheck == pc \in {"r_connect", "r_cursor", "r_execute"}

\* health(), line 369: pg_collector.connect() while the status is built
HConnect ==
    /\ hpc = "idle"
    /\ LET c == connect(conn, Reachable)
           rebinds == c.ok
           cursorOnHandle == pc = "r_execute" /\ rcur = "handle"
       IN  /\ conn' = c.conn
           /\ rcur' = IF rebinds /\ cursorOnHandle THEN conn ELSE rcur
           /\ orphans' = IF Replaced(conn, Reachable) /\ ~cursorOnHandle
                         THEN orphans + 1 ELSE orphans
           /\ race' = IF rebinds /\ AfterCheck
                      THEN [race EXCEPT !.byHealth = TRUE] ELSE race
           /\ hresp' = [route |-> "/", status |-> 0,
                        body |-> [status |-> "ok",
                                  datasources |-> [postgresql |-> c.ok,
                                                   elasticsearch |-> connected,
                                                   apis |-> TRUE]]]
    /\ hpc' = "connected"
    /\ UNCHANGED <<mode, pc, dbUp, es, connected, esPing, req, timestamps,
                   results, calls, plog, httpResp, saved, rneeds>>
    /\ UNCHANGED tfVars

\* health(), lines 374-375: pg_collector.disconnect(); return jsonify(status)
HDisconnect ==
    /\ hpc = "connected"
    /\ conn' = disconnect(conn)
    /\ race' = IF conn # "none" /\ AfterCheck
               THEN [race EXCEPT !.byHealth = TRUE] ELSE race
    /\ hresp' = [hresp EXCEPT !.status = 200]
    /\ hpc' = "responded"
    /\ UNCHANGED <<mode, pc, dbUp, es, connected, esPing, req, timestamps,
                   results, calls, plog, httpResp, saved, orphans, rneeds, rcur>>
    /\ UNCHANGED tfVars

\* the health response is sent; the thread serves the next GET /
HServed ==
    /\ hpc = "responded"
    /\ hpc' = "idle"
    /\ hresp' = NoResp
    /\ UNCHANGED <<mode, pc, dbUp, conn, es, connected, esPing, req, timestamps,
                   results, calls, plog, httpResp, saved, orphans, rneeds, rcur,
                   race>>
    /\ UNCHANGED tfVars

\* query() up to the call of pg_collector.fetch_time_series
TQueryStart ==
    /\ pc = "idle"
    /\ \E r \in ThreadedRequests :
         /\ req' = r
         /\ timestamps' = GenTimestamps(fromisoformat(r.range.from),
                                        fromisoformat(r.range.to))
    /\ results' = <<>>
    /\ calls' = <<>>
    /\ race' = NoRace
    /\ pc' = "r_check"
    /\ UNCHANGED <<mode, dbUp, conn, es, connected, esPing, plog, httpResp,
                   saved, orphans, hpc, hresp, rneeds, rcur>>
    /\ UNCHANGED tfVars

\* fetch_time_series, line 186: if not self.conn or self.conn.closed
RCheck ==
    /\ pc = "r_check"
    /\ rneeds' = NeedsConnect(conn)
    /\ plog' = [op |-> "fetch_time_series", start |-> conn, dbUp |-> Reachable,
                attempts |-> IF NeedsConnect(conn) THEN 1 ELSE 0,
                connectOk |-> FALSE, execOn |-> "none", executed |-> FALSE]
    /\ pc' = IF NeedsConnect(conn) THEN "r_connect" ELSE "r_cursor"
    /\ UNCHANGED <<mode, dbUp, conn, es, connected, esPing, req, timestamps,
                   results, calls, httpResp, saved, orphans, hpc, hresp, rcur,
                   race>>
    /\ UNCHANGED tfVars

\* fetch_time_series, line 187: self.connect()
RConnect ==
    /\ pc = "r_connect"
    /\ LET c == connect(conn, Reachable)
       IN  /\ conn' = c.conn
           /\ orphans' = IF Replaced(conn, Reachable) THEN orphans + 1 ELSE orphans
           /\ plog' = [plog EXCEPT !.connectOk = c.ok]
    /\ pc' = "r_cursor"
    /\ UNCHANGED <<mode, dbUp, es, connected, esPing, req, timestamps,
                   results, calls, httpResp, saved, hpc, hresp, rneeds, rcur,
                   race>>
    /\ UNCHANGED tfVars

\* the values query() appends for what fetch_time_series returned
ReadReturns(ret) ==
    /\ results' = Append(results, Entry(Metric, PgDatapoints(ret)))
    /\ calls' = Append(calls, <<[connector |-> "postgres",
                                 arg |-> <<LastSegment(Metric)>>,
                                 ret |-> ret, searches |-> 0]>>)
    /\ pc' = "query"

\* fetch_time_series, line 189: self.conn.cursor(..); on None or on a closed
\* connection this raises and the method returns []
RCursor ==
    /\ pc = "r_cursor"
    /\ plog' = [plog EXCEPT !.execOn = conn]
    /\ IF conn \in {"none", "closed"}
       THEN ReadReturns(CursorExecute(conn, FALSE, <<>>).ret)
       ELSE pc' = "r_execute" /\ UNCHANGED <<results, calls>>
    /\ rcur' = "handle"
    /\ UNCHANGED <<mode, dbUp, conn, es, connected, esPing, req, timestamps,
                   httpResp, saved, orphans, hpc, hresp, rneeds, race>>
    /\ UNCHANGED tfVars

\* fetch_time_series, lines 190-195: cursor.execute(..), fetchall, return;
\* the cursor and, if nothing else refers to it, its connection are dropped
RExecute ==
    /\ pc = "r_execute"
    /\ \E qerr \in BOOLEAN :
         LET on == IF rcur = "handle" THEN conn ELSE rcur
             r  == CursorExecute(on, qerr,
                      SelectTimeSeries(<<LastSegment(Metric)>>,
                                       fromisoformat(req.range.from),
                                       fromisoformat(req.range.to)))
         IN  /\ ReadReturns(r.ret)
             /\ conn' = IF rcur = "handle" THEN r.conn ELSE conn
             /\ orphans' = IF rcur # "handle" /\ r.conn = "open"
                           THEN orphans + 1 ELSE orphans
             /\ plog' = [plog EXCEPT !.executed = r.executed]
             /\ race' = [race EXCEPT !.qerr = qerr /\ on = "open"]
    /\ rcur' = "handle"
    /\ UNCHANGED <<mode, dbUp, es, connected, esPing, req, timestamps,
                   httpResp, saved, hpc, hresp, rneeds>>
    /\ UNCHANGED tfVars

ThreadedNext ==
    \/ DbComesUp
    \/ DbGoesDown
    \/ Finalize
    \/ HConnect
    \/ HDisconnect
    \/ HServed
    \/ TQueryStart
    \/ RCheck
    \/ RConnect
    \/ RCursor
    \/ RExecute
    \/ QueryReturn
    \/ Served

ThreadedSpec == ThreadedInit /\ [][ThreadedNext]_vars

\* the read of the query in progress has returned
ReadDone == hpc # "off" /\ pc \in {"query", "responded"} /\ Len(results) = 1

\* the database held rows for the read and nothing but the handle stood in
\* its way: the server was up with a free slot when the read began and stayed
\* up, the handle it found was not a connection whose server had gone, and
\* the server did not reject the statement
RowsWereThere ==
    /\ ReadDone
    /\ plog.dbUp /\ ~race.outage /\ ~race.qerr
    /\ plog.start # "broken"
    /\ Len(SelectTimeSeries(calls[1][1].arg, fromisoformat(req.range.from),
                            fromisoformat(req.range.to))) > 0

\* C11: the shared handle is used with no lock.  With a GET / and a POST
\* /query for a postgres.* target running concurrently, a query whose
\* database is reachable and holds matching rows comes back with empty
\* datapoints exactly in the interleavings in which the health check's
\* connect or disconnect rebinds or closes the handle after the query's
\* "not self.conn or self.conn.closed" check and before its query runs on
\* the cursor; such an interleaving is reachable.
C11_EmptyOnlyByRace ==
    (RowsWereThere /\ results[1].datapoints = <<>>) => race.byHealth

\* the health check closed the handle between the check and cursor(), and
\* the query came back empty although the rows were there
C11_Witness ==
    /\ RowsWereThere
    /\ pc = "responded"
    /\ httpResp.route = "/query"
    /\ httpResp.body[1].datapoints = <<>>
    /\ race.byHealth
    /\ plog.start = "open"
    /\ plog.execOn = "closed"
    /\ dbUp

----------------------------------------------------------------------------
(* Properties of the connections held by the relational connector *)

====
